---- MODULE Spec2Model ----
(***************************************************************************)
(* Model of the jokesMCP server: an express application that keeps a       *)
(* registry of SSE transports keyed by session id, one shared McpServer    *)
(* object that every new transport is connected to, and five tool handlers *)
(* (four joke tools and get-weather).                                      *)
(*                                                                         *)
(* The repository holds four builds of the same program: three in         *)
(* src/src/index.ts (lines 1-100, 102-285, 287-371) and one in            *)
(* src/unnamed/part_000.  They share the express plumbing and the joke     *)
(* handlers and differ in the get-weather handler; `variant` says which    *)
(* build is running.                                                       *)
(*                                                                         *)
(* JavaScript runs each handler to its first suspension without            *)
(* interleaving, so one action is one such uninterrupted run.  The MCP SDK *)
(* classes are modelled by the part of their behaviour the program relies  *)
(* on: a transport gets its session id when constructed, server.connect    *)
(* makes the transport the server's current one and starts its stream,     *)
(* handlePostMessage reads and parses the body and answers 202 or 400, and *)
(* the server sends a handler's result on its current transport.           *)
(***************************************************************************)
EXTENDS Integers, Sequences, FiniteSets, TLC

\* ---------------------------------------------------------------- bounds
MaxSessions == 2
MaxRequests == 1

\* ------------------------------------------------------------- constants
Variants == 1..4          \* 1,2,3: index.ts builds in file order; 4: part_000
NoTransport == 0          \* the server's transport when none is connected
NoCity == "<absent>"      \* params.city === undefined
Malformed == "<malformed>" \* a body that is not a JSON-RPC tools/call envelope

JokeTools == {"get-chuck-joke", "get-chuck-categories", "get-dad-joke", "get-yo-mama-joke"}
Tools == JokeTools \cup {"get-weather"}
Cities == {NoCity, "", " ", "London"}
Outcomes == {"ok", "reject", "wrongShape"}

SessionIds == 1..MaxSessions
\* session ids a client may put in ?sessionId= : issued ones and one that never is
QueryIds == 1..(MaxSessions + 1)

VARIABLES variant, nextId, transports, sseOpen, serverTransport, streams, requests

vars == <<variant, nextId, transports, sseOpen, serverTransport, streams, requests>>

\* sessions whose GET /sse response has fired its close event
Closed == (1..(nextId - 1)) \ sseOpen

\* ------------------------------------------------------- pure operations
\* a lookup that finds a transport for every id
lookupAny(reg, sid) == TRUE

\* transports[sessionId] is truthy
lookup(reg, sid) == sid \in reg

\* a close hook that leaves the entry in place
closeHookKeeps(reg, sid) == reg

\* res.on("close", () => delete transports[transport.sessionId])
closeHook(reg, sid) == reg \ {sid}

\* a connect that suspends before it has started the stream
connectSuspendsFirst(open, sid) == open

\* server.connect(transport) reaches transport.start() before it suspends
connectStarts(open, sid) == open \cup {sid}

\* a parse that accepts every body
parsesAny(tool) == TRUE

\* the body parses as a JSON-RPC tools/call message
parses(tool) == tool # Malformed

\* String.prototype.trim on the cities drawn here
trim(city) == IF city = " " THEN "" ELSE city

\* !city
falsy(city) == city \in {NoCity, ""}

\* the city the get-weather handler works with after its first statement;
\* the handler's parameter is taken to carry the call's city argument
weatherCity(v, city) ==
    IF v = 4 THEN (IF city = NoCity THEN NoCity ELSE trim(city)) ELSE city

\* does the get-weather handler return the guidance text instead of fetching
weatherGuards(v, city) ==
    IF v = 3 THEN FALSE ELSE falsy(weatherCity(v, city))

\* what a get-weather handler returns (or "thrown") once its fetch settled
weatherAfterFetch(v, outcome) ==
    IF v = 3
    THEN CASE outcome = "ok"         -> "report"
           [] outcome = "wrongShape" -> "apology"
           [] outcome = "reject"     -> "thrown"
    ELSE CASE outcome = "ok"         -> "report"
           [] outcome = "wrongShape" -> "apology"
           [] outcome = "reject"     -> "apology"

\* what a joke handler returns (or "thrown") once its fetch settled
jokeAfterFetch(tool, outcome) ==
    CASE outcome = "ok"     -> "joke"
      [] outcome = "reject" -> "thrown"
      [] outcome = "wrongShape" ->
            IF tool = "get-chuck-categories" THEN "thrown" ELSE "undefinedText"

afterFetch(v, tool, outcome) ==
    IF tool = "get-weather" THEN weatherAfterFetch(v, outcome)
    ELSE jokeAfterFetch(tool, outcome)

\* ------------------------------------------------------------------ state
Init ==
    /\ variant \in Variants
    /\ nextId = 1
    /\ transports = {}
    /\ sseOpen = {}
    /\ serverTransport = NoTransport
    /\ streams = [s \in SessionIds |-> <<>>]
    /\ requests = <<>>

\* app.get("/sse"): construct the transport, store it, hook close, connect
GetSse ==
    /\ nextId <= MaxSessions
    /\ LET sid == nextId IN
        /\ nextId' = nextId + 1
        /\ transports' = transports \cup {sid}
        /\ serverTransport' = sid
        /\ sseOpen' = connectStarts(sseOpen, sid)
        /\ streams' = IF sid \in connectStarts(sseOpen, sid)
                      THEN [streams EXCEPT ![sid] = <<[event |-> "endpoint", req |-> 0]>>]
                      ELSE streams
    /\ UNCHANGED <<variant, requests>>

\* the close event of a GET /sse response
CloseSse(sid) ==
    /\ sid \in sseOpen
    /\ transports' = closeHook(transports, sid)
    /\ sseOpen' = sseOpen \ {sid}
    /\ serverTransport' = NoTransport
    /\ UNCHANGED <<variant, nextId, streams, requests>>

NewRequest(sid, tool, city) ==
    [session |-> sid, tool |-> tool, city |-> city,
     lookup |-> IF sid \in transports THEN "found"
                ELSE IF sid \in Closed THEN "closed" ELSE "neverIssued",
     pc |-> "new", http |-> "none", invoked |-> FALSE,
     upstream |-> "none", result |-> "none"]

\* app.post("/jokes") up to its first suspension
Post(sid, tool, city) ==
    /\ Len(requests) < MaxRequests
    /\ LET r == NewRequest(sid, tool, city) IN
       requests' = Append(requests,
         IF ~lookup(transports, sid)
         THEN [r EXCEPT !.pc = "done", !.http = "400 No transport found for sessionId"]
         ELSE IF sid \notin sseOpen
         THEN [r EXCEPT !.pc = "done", !.http = "500 SSE connection not established"]
         ELSE [r EXCEPT !.pc = "reading"])
    /\ UNCHANGED <<variant, nextId, transports, sseOpen, serverTransport, streams>>

\* the tool handler's run up to its fetch, or to its return when it does not fetch
invoke(r) ==
    IF r.tool = "get-weather" /\ weatherGuards(variant, r.city)
    THEN [r EXCEPT !.invoked = TRUE, !.result = "guidance", !.pc = "ready"]
    ELSE [r EXCEPT !.invoked = TRUE, !.upstream = "pending", !.pc = "fetching"]

\* transport.handlePostMessage once the body is read: parse, answer, dispatch
HandlePostMessage(i) ==
    /\ i \in 1..Len(requests)
    /\ requests[i].pc = "reading"
    /\ LET r == requests[i] IN
       requests' = [requests EXCEPT ![i] =
         IF ~parses(r.tool)
         THEN [r EXCEPT !.pc = "done", !.http = "400 Invalid message"]
         ELSE invoke([r EXCEPT !.http = "202 Accepted"])]
    /\ UNCHANGED <<variant, nextId, transports, sseOpen, serverTransport, streams>>

\* the third-party endpoint answers (or the connection fails)
Upstream(i, outcome) ==
    /\ i \in 1..Len(requests)
    /\ requests[i].pc = "fetching"
    /\ LET r == requests[i] IN
       requests' = [requests EXCEPT ![i] =
         [r EXCEPT !.upstream = outcome,
                   !.result = afterFetch(variant, r.tool, outcome),
                   !.pc = "ready"]]
    /\ UNCHANGED <<variant, nextId, transports, sseOpen, serverTransport, streams>>

\* the shared server sends the handler's outcome on its current transport
Deliver(i) ==
    /\ i \in 1..Len(requests)
    /\ requests[i].pc = "ready"
    /\ LET r == requests[i] IN
       requests' = [requests EXCEPT ![i] = [r EXCEPT !.pc = "done"]]
    /\ streams' = IF serverTransport \in sseOpen
                  THEN [streams EXCEPT ![serverTransport] =
                          Append(@, [event |-> "message", req |-> i])]
                  ELSE streams
    /\ UNCHANGED <<variant, nextId, transports, sseOpen, serverTransport>>

Next ==
    \/ GetSse
    \/ \E sid \in SessionIds : CloseSse(sid)
    \/ \E sid \in QueryIds, tool \in JokeTools \cup {Malformed} : Post(sid, tool, NoCity)
    \/ \E sid \in QueryIds, city \in Cities : Post(sid, "get-weather", city)
    \/ \E i \in 1..MaxRequests : HandlePostMessage(i)
    \/ \E i \in 1..MaxRequests, o \in Outcomes : Upstream(i, o)
    \/ \E i \in 1..MaxRequests : Deliver(i)

Spec == Init /\ [][Next]_vars

\* the server's own steps are always taken; the third-party endpoint owes nothing
FairSpec ==
    /\ Spec
    /\ \A i \in 1..MaxRequests : WF_vars(HandlePostMessage(i)) /\ WF_vars(Deliver(i))

TypeOK ==
    /\ variant \in Variants
    /\ nextId \in 1..(MaxSessions + 1)
    /\ transports \subseteq SessionIds
    /\ sseOpen \subseteq SessionIds
    /\ serverTransport \in SessionIds \cup {NoTransport}
    /\ Len(requests) <= MaxRequests

\* ------------------------------------------------------------ properties
Reqs == 1..Len(requests)

\* the streams on which an event for request i was written
DeliveredOn(i) ==
    {s \in SessionIds : \E k \in 1..Len(streams[s]) : streams[s][k].req = i}

NotFoundAnswer == "400 No transport found for sessionId"

C2_ClosedStaysClosed ==
    /\ \A s \in Closed : s \notin transports
    /\ \A i \in Reqs :
        requests[i].session \in Closed /\ requests[i].lookup # "found" =>
            /\ requests[i].http = NotFoundAnswer
            /\ ~requests[i].invoked
            /\ DeliveredOn(i) = {}

C2_Witness ==
    \E i \in Reqs :
        /\ requests[i].lookup = "closed"
        /\ requests[i].http = NotFoundAnswer
        /\ transports # {}

\* C3: the result of a request tagged with session S is written on the
\* stream of S and on no other stream.
C3_ResultOnOwnStream ==
    \A s \in SessionIds : \A k \in 1..Len(streams[s]) :
        streams[s][k].event = "message" =>
            requests[streams[s][k].req].session = s

\* C4: get-weather without a city (absent or empty) returns the guidance
\* text and starts no upstream call, in every build.
C4_NoCityGuidance ==
    \A i \in Reqs :
        (/\ requests[i].tool = "get-weather"
         /\ requests[i].city \in {NoCity, ""}
         /\ requests[i].invoked) =>
            /\ requests[i].upstream = "none"
            /\ requests[i].result = "guidance"

\* C5: when a handler's upstream call fails (network error or a payload of
\* an unexpected shape) the handler still returns a text that explains the
\* failure; nothing is thrown out of the handler.
C5_FailureBecomesText ==
    \A i \in Reqs :
        requests[i].upstream \in {"reject", "wrongShape"} =>
            requests[i].result = "apology"

\* C6: every upstream call is bounded by a deadline: a handler invocation
\* that waits for the third-party endpoint eventually completes, even if
\* the endpoint never answers.
C6_HandlerCompletes ==
    \A i \in 1..MaxRequests :
        (i \in Reqs /\ requests[i].pc = "fetching")
            ~> (i \in Reqs /\ requests[i].pc \in {"ready", "done"})

C9_NoHalfInitialized ==
    /\ \A s \in transports : s \in sseOpen /\ Len(streams[s]) >= 1
    /\ \A i \in Reqs : requests[i].http # "500 SSE connection not established"

C9_Witness ==
    \E i \in Reqs :
        /\ requests[i].lookup = "found"
        /\ requests[i].http = "202 Accepted"
        /\ requests[i].session \in transports

\* C10: when a session closes while a handler invocation for it is in
\* flight, the eventual send writes nothing on any stream.
C10_NoWriteAfterClose ==
    [][\A i \in Reqs :
         (/\ requests[i].session \in Closed
          /\ requests[i].pc = "ready"
          /\ requests'[i].pc = "done") => streams' = streams]_vars
====
